---- MODULE Spec2Model ----
(***************************************************************************)
(* Model of examples/conversation_model/conversation_model.py:             *)
(* ConversationModel drives N ConversationAgents through a                 *)
(* mesa.time.RandomActivation scheduler; each agent turn either greets     *)
(* (schedule.steps == 1) or responds to the last message of a random peer  *)
(* that has already spoken.  The LLM client is a black box that either     *)
(* returns a text or raises.                                               *)
(*                                                                         *)
(* mesa.time.RandomActivation (imported at line 21, built at line 178):    *)
(* `steps` starts at 0; step() activates every agent of a snapshot of the  *)
(* schedule exactly once, in an order reshuffled at every step, and only   *)
(* then executes `self.steps += 1`.                                        *)
(***************************************************************************)
EXTENDS Integers, Sequences, FiniteSets, TLC

\* n_agents ranges over 1..MaxAgents
MaxAgents == 3
\* the driver loop calls ConversationModel.step() NumSteps times
NumSteps == 3

\* texts the LLM client may return, and failure descriptions it may raise;
\* a string is a sequence of parts, concatenated with \o
LLMTexts == { << "hello" >> }
LLMErrors == { << "timeout" >> }

\* default personalities of ConversationModel.__init__
personalities ==
  << "friendly and outgoing", "shy and thoughtful", "humorous and witty",
     "intellectual and curious", "energetic and enthusiastic" >>

VARIABLES
  agents,                \* schedule.agents, in add order
  personality,           \* agent id -> personality
  conversation_history,  \* agent id -> sequence of message records
  steps,                 \* schedule.steps
  pc,                    \* position of the driver: idle, stepping, done, aborted
  remaining,             \* agents of the step's snapshot not yet activated
  calls,                 \* completed calls of ConversationModel.step()
  turns,                 \* agent id -> number of invocations of its step()
  llm_calls,             \* agent id -> counts of llm.generate calls
  model_vars,            \* datacollector: one model record per collect()
  agent_vars             \* datacollector: one agent table per collect()

vars == << agents, personality, conversation_history, steps, pc, remaining,
           calls, turns, llm_calls, model_vars, agent_vars >>

AgentIds == { agents[i] : i \in 1..Len(agents) }

\* outcome of one llm.generate(prompt) call: a text, or an exception
Outcomes ==
  { [ok |-> TRUE, text |-> t] : t \in LLMTexts } \cup
  { [ok |-> FALSE, text |-> e] : e \in LLMErrors }

HasRespondingTo(m) == "responding_to" \in DOMAIN m

\* f"Agent {self.unique_id}"
speaker_name(id) == << "Agent", id >>

\* f"[Error generating greeting: {e}]"
greeting_error(e) == << "[Error generating greeting: " >> \o e \o << "]" >>

\* f"[Error generating response: {e}]"
response_error(e) == << "[Error generating response: " >> \o e \o << "]" >>

\* variant: the message lands in the log of the next agent
append_to_peer(hist, self, msg) ==
  LET peer == IF self + 1 \in DOMAIN hist THEN self + 1 ELSE 0
  IN [hist EXCEPT ![peer] = Append(@, msg)]

\* self.conversation_history.append(msg)
append_message(hist, self, msg) ==
  [hist EXCEPT ![self] = Append(@, msg)]

\* variant: generate_greeting without its except clause
generate_greeting_no_except(self, hist, stp, outcome) ==
  IF outcome.ok
    THEN [history |-> append_message(hist, self,
                        [speaker |-> speaker_name(self),
                         message |-> outcome.text,
                         step |-> stp]),
          ret |-> outcome.text,
          raised |-> FALSE]
    ELSE [history |-> hist, ret |-> outcome.text, raised |-> TRUE]

\* the try/except of generate_greeting: effect on the histories, return
\* value, and whether an exception leaves the method
generate_greeting(self, hist, stp, outcome) ==
  IF outcome.ok
    THEN [history |-> append_message(hist, self,
                        [speaker |-> speaker_name(self),
                         message |-> outcome.text,
                         step |-> stp]),
          ret |-> outcome.text,
          raised |-> FALSE]
    ELSE [history |-> hist,
          ret |-> greeting_error(outcome.text),
          raised |-> FALSE]

\* the try/except of respond_to
respond_to(self, hist, stp, speaker_id, outcome) ==
  IF outcome.ok
    THEN [history |-> append_message(hist, self,
                        [speaker |-> speaker_name(self),
                         responding_to |-> speaker_id,
                         message |-> outcome.text,
                         step |-> stp]),
          ret |-> outcome.text,
          raised |-> FALSE]
    ELSE [history |-> hist,
          ret |-> response_error(outcome.text),
          raised |-> FALSE]

\* variant: the greeting branch is taken at every step from the first on
is_first_step_or_later(stp) == stp >= 1

\* if self.model.schedule.steps == 1
is_first_step(stp) == stp = 1

\* variant: the comprehension without `if a != self`
other_agents_with_self(self, agts) == { agts[i] : i \in 1..Len(agts) }

\* [a for a in self.model.schedule.agents if a != self]
other_agents(self, agts) ==
  { agts[i] : i \in { j \in 1..Len(agts) : agts[j] # self } }

\* variant: the comprehension without its length filter
agents_with_messages_unfiltered(others, hist) == others

\* [a for a in other_agents if len(a.conversation_history) > 0]
agents_with_messages(others, hist) ==
  { a \in others : Len(hist[a]) > 0 }

\* variant: the snapshot misses the agent added last
agent_buffer_drop_last(agts) == { agts[i] : i \in 1..(Len(agts) - 1) }

\* the snapshot of the schedule that RandomActivation.step() iterates
agent_buffer(agts) == { agts[i] : i \in 1..Len(agts) }

\* the agents the shuffled iteration may activate next
next_agents(rem) == rem

Init ==
  /\ \E n \in 1..MaxAgents :
       /\ agents = [i \in 1..n |-> i - 1]
       /\ personality =
            [a \in 0..(n - 1) |-> personalities[(a % Len(personalities)) + 1]]
       /\ conversation_history = [a \in 0..(n - 1) |-> << >>]
       /\ turns = [a \in 0..(n - 1) |-> 0]
       /\ llm_calls =
            [a \in 0..(n - 1) |-> [greeting |-> 0, response |-> 0, failed |-> 0]]
  /\ steps = 0
  /\ pc = "idle"
  /\ remaining = {}
  /\ calls = 0
  /\ model_vars = << >>
  /\ agent_vars = << >>

\* ConversationModel.step() enters schedule.step(): snapshot of the agents
ScheduleStepBegin ==
  /\ pc = "idle"
  /\ calls < NumSteps
  /\ remaining' = agent_buffer(agents)
  /\ pc' = "stepping"
  /\ UNCHANGED << agents, personality, conversation_history, steps, calls,
                  turns, llm_calls, model_vars, agent_vars >>

\* ConversationAgent.step() of agent self, activated by the scheduler
AgentStep(self) ==
  /\ pc = "stepping"
  /\ self \in next_agents(remaining)
  /\ remaining' = remaining \ {self}
  /\ turns' = [turns EXCEPT ![self] = @ + 1]
  /\ IF is_first_step(steps)
       THEN \E outcome \in Outcomes :
              LET r == generate_greeting(self, conversation_history, steps, outcome)
              IN /\ conversation_history' = r.history
                 /\ llm_calls' =
                      [llm_calls EXCEPT
                         ![self].greeting = @ + 1,
                         ![self].failed = IF outcome.ok THEN @ ELSE @ + 1]
                 /\ pc' = IF r.raised THEN "aborted" ELSE pc
       ELSE LET others == other_agents(self, agents)
                candidates == IF others # {}
                                THEN agents_with_messages(others, conversation_history)
                                ELSE {}
            IN IF candidates = {}
                 THEN UNCHANGED << conversation_history, llm_calls, pc >>
                 ELSE \E target \in candidates :
                        IF Len(conversation_history[target]) = 0
                          THEN \* conversation_history[-1] raises IndexError
                               /\ pc' = "aborted"
                               /\ UNCHANGED << conversation_history, llm_calls >>
                          ELSE \E outcome \in Outcomes :
                                 LET r == respond_to(self, conversation_history,
                                                     steps, target, outcome)
                                 IN /\ conversation_history' = r.history
                                    /\ llm_calls' =
                                         [llm_calls EXCEPT
                                            ![self].response = @ + 1,
                                            ![self].failed =
                                               IF outcome.ok THEN @ ELSE @ + 1]
                                    /\ pc' = IF r.raised THEN "aborted" ELSE pc
  /\ UNCHANGED << agents, personality, steps, calls, model_vars, agent_vars >>

RECURSIVE total_messages(_, _)
\* sum(len(a.conversation_history) for a in m.schedule.agents)
total_messages(agts, hist) ==
  IF agts = << >> THEN 0
  ELSE Len(hist[Head(agts)]) + total_messages(Tail(agts), hist)

\* schedule.step() has activated the whole snapshot: steps += 1, then
\* datacollector.collect(self), then the driver loop goes on or ends
ScheduleStepEnd ==
  /\ pc = "stepping"
  /\ remaining = {}
  /\ steps' = steps + 1
  /\ model_vars' = Append(model_vars,
                     [total |-> total_messages(agents, conversation_history),
                      step |-> steps + 1])
  /\ agent_vars' = Append(agent_vars,
                     [a \in AgentIds |->
                        [sent |-> Len(conversation_history[a]),
                         personality |-> personality[a]]])
  /\ calls' = calls + 1
  /\ pc' = IF calls + 1 = NumSteps THEN "done" ELSE "idle"
  /\ UNCHANGED << agents, personality, conversation_history, remaining,
                  turns, llm_calls >>

Next ==
  \/ ScheduleStepBegin
  \/ \E self \in AgentIds : AgentStep(self)
  \/ ScheduleStepEnd

Spec == Init /\ [][Next]_vars

(***************************************************************************)
(* Properties                                                              *)
(***************************************************************************)
N == Len(agents)

\* agent a's step() is invoked by this transition
Acted(a) == turns'[a] = turns[a] + 1

\* number of messages this transition adds to a's history
Appended(a) == Len(conversation_history'[a]) - Len(conversation_history[a])

\* this transition appends exactly one message at the end of a's history
Extends(a) ==
  /\ Len(conversation_history'[a]) = Len(conversation_history[a]) + 1
  /\ SubSeq(conversation_history'[a], 1, Len(conversation_history[a]))
       = conversation_history[a]

LastMessage(h) == h[Len(h)]

\* no agent other than a has a logged message
NoPeerSpoke(a) ==
  \A b \in AgentIds \ {a} : Len(conversation_history[b]) = 0

Placeholders ==
  { greeting_error(e) : e \in LLMErrors } \cup
  { response_error(e) : e \in LLMErrors }

\* C1: whenever the LLM call of an agent's turn fails, that turn appends
\* exactly one message to the agent's own history, and its text is the error
\* placeholder embedding the failure description.
C1_FailureAppendsPlaceholder ==
  [][\A a \in AgentIds :
       llm_calls'[a].failed > llm_calls[a].failed
         => /\ Extends(a)
            /\ LastMessage(conversation_history'[a]).message \in Placeholders]_vars

\* C2: an LLM failure never leaves the agent's turn: the run is never
\* aborted, and when the driver loop has ended, every call of step() has
\* completed with its metric collection and every agent has had one turn
\* per step.
C2_NeverAborts ==
  /\ pc # "aborted"
  /\ Len(model_vars) = calls
  /\ pc = "done" =>
       /\ calls = NumSteps
       /\ \A a \in AgentIds : turns[a] = NumSteps

\* a run that ended although a greeting call and a response call failed
W2_DoneAfterFailures ==
  /\ pc = "done"
  /\ \E a \in AgentIds : llm_calls[a].failed >= 2 /\ llm_calls[a].greeting = 1

\* C3: in every turn an agent appends at most one message, and it appends
\* none only when the turn is not its first one and no other agent has a
\* logged message; in every other turn it appends exactly one.
C3_ZeroOnlyWhenNoPeerSpoke ==
  [][\A a \in AgentIds :
       Acted(a)
         => /\ Appended(a) \in {0, 1}
            /\ Appended(a) = 0 <=> (turns[a] > 0 /\ NoPeerSpoke(a))]_vars

\* C4: in every history the first message has no "responding_to" field and
\* every later message has one.
C4_FirstGreetingThenResponses ==
  \A a \in AgentIds :
    \A i \in 1..Len(conversation_history[a]) :
      HasRespondingTo(conversation_history[a][i]) <=> i > 1

\* C5: a message carrying "responding_to" references an agent other than
\* its sender whose history was non-empty when the response was generated.
C5_RespondsToEarlierSpeaker ==
  [][\A a \in AgentIds :
       (Appended(a) > 0 /\ HasRespondingTo(LastMessage(conversation_history'[a])))
         => LET t == LastMessage(conversation_history'[a]).responding_to
            IN /\ t \in AgentIds \ {a}
               /\ Len(conversation_history[t]) > 0]_vars

\* a response to a peer whose only earlier messages are responses
W5_ResponseToResponder ==
  \E a \in AgentIds :
    \E i \in 1..Len(conversation_history[a]) :
      /\ HasRespondingTo(conversation_history[a][i])
      /\ HasRespondingTo(
           conversation_history[conversation_history[a][i].responding_to][1])

\* messages produced by the k-th call of ConversationModel.step()
Produced(k) ==
  model_vars[k].total - (IF k = 1 THEN 0 ELSE model_vars[k - 1].total)

\* C6: with an LLM that never fails, the first call of step() produces
\* exactly N greetings (none with "responding_to"), and each later call
\* produces N responses to other agents when N >= 2, none when N = 1.
C6_GreetingsThenResponses ==
  (\A a \in AgentIds : llm_calls[a].failed = 0)
    => /\ \A k \in 1..Len(model_vars) :
            Produced(k) = IF k = 1 \/ N >= 2 THEN N ELSE 0
       /\ (pc \in {"idle", "done"} /\ calls >= 1)
            => \A a \in AgentIds :
                 /\ Len(conversation_history[a]) >= 1
                 /\ \A i \in 1..Len(conversation_history[a]) :
                      IF i = 1
                        THEN ~HasRespondingTo(conversation_history[a][i])
                        ELSE /\ HasRespondingTo(conversation_history[a][i])
                             /\ conversation_history[a][i].responding_to
                                  \in AgentIds \ {a}

\* C7 (amended): every scheduler step invokes each agent's step() exactly
\* once, N invocations in total, in whatever order the scheduler's shuffle
\* produces.
C7_OncePerStep ==
  /\ \A a \in AgentIds :
       turns[a] = calls + (IF pc = "stepping" /\ a \notin remaining THEN 1 ELSE 0)
  /\ pc \in {"idle", "done"} => remaining = {}

\* C7 as stated: exactly once per step, and always in add order, so the
\* agents still waiting for their turn are a suffix of the add order.
C7_AddOrder ==
  /\ \A a \in AgentIds :
       turns[a] = calls + (IF pc = "stepping" /\ a \notin remaining THEN 1 ELSE 0)
  /\ pc = "stepping" =>
       \E k \in 1..(N + 1) : remaining = { agents[i] : i \in k..N }

\* third step of a 3-agent run in which agent 0 is activated last
W7_FirstAgentLast ==
  /\ N = 3
  /\ pc = "stepping"
  /\ calls = 2
  /\ remaining = {0}

C9_OnlyOwnHistoryAppended ==
  [][/\ agents' = agents
     /\ personality' = personality
     /\ DOMAIN conversation_history' = DOMAIN conversation_history
     /\ \A b \in AgentIds :
          \/ conversation_history'[b] = conversation_history[b]
          \/ Acted(b) /\ Extends(b)]_vars

\* a finished run with a greeting, a response and a failed call
W9_AllKindsOfTurn ==
  /\ pc = "done"
  /\ \E a, b \in AgentIds :
       /\ a # b
       /\ Len(conversation_history[a]) = 2
       /\ llm_calls[b].failed >= 1

\* messages of a's history without a "responding_to" field
Greetings(a) ==
  { i \in 1..Len(conversation_history[a]) :
      ~HasRespondingTo(conversation_history[a][i]) }

====
